---- MODULE Spec2Model ----
(***************************************************************************)
(* The mixing engine of Ambiance: the routed mixer view MixerPage          *)
(* (src/src/components/MixerPage.tsx) and the inline Mixer component of    *)
(* SceneGenerator (src/main.tsx).                                          *)
(*                                                                         *)
(* Numbers are in hundredths: a volume of 0.5 is 50, a pan of -1 is -100,  *)
(* a gain of -6.02 dB is -602.  React state objects live in a heap (objs)  *)
(* so that an object mutated in place and its spread copy are different    *)
(* objects, as they are in the program.                                    *)
(***************************************************************************)
EXTENDS Integers, Sequences, FiniteSets, TLC

\* ---------------------------------------------------------------- bounds
MaxElems == 2
MaxUrls == 2
MaxSets == 1
MaxToggles == 3
MaxPending == 2

\* slider inputs handed to the setters, in and out of the declared ranges
VolInputs == {50, 120}
PanInputs == {-200, -30}

\* ------------------------------------------------------------ the values
Null == 0
Undefined == 0

Min(a, b) == IF a < b THEN a ELSE b
Clamp(x, lo, hi) == IF x < lo THEN lo ELSE IF x > hi THEN hi ELSE x

\* decibel values: finite, -Infinity, or NaN
Fin(d) == [k |-> "fin", v |-> d]
NegInfinity == [k |-> "-Infinity", v |-> 0]
NaN == [k |-> "NaN", v |-> 0]

\* 20 * log10(g / 100), in hundredths of a dB, for the gains the model uses
Log10x20(g) ==
    CASE g = 25 -> -1204
      [] g = 50 -> -602
      [] g = 80 -> -194
      [] g = 100 -> 0
      [] g = 120 -> 158
      [] g = 150 -> 352

\* Tone.gainToDb(gain) = 20 * (Math.log(gain) / Math.LN10)
GainToDb(g) ==
    IF g < 0 THEN NaN
    ELSE IF g = 0 THEN NegInfinity
    ELSE Fin(Log10x20(g))

\* the linear gain a decibel value stands for: 10 ^ (db / 20)
DbToGain(db) ==
    IF db.k = "NaN" THEN NaN
    ELSE IF db.k = "-Infinity" THEN Fin(0)
    ELSE Fin(CHOOSE g \in {25, 50, 80, 100, 120, 150} : Log10x20(g) = db.v)

\* ------------------------------------------------------------- the state
VARIABLES
    phase,          \* MixerPage: "constructed", "mounted" or "unmounted"
    location,       \* location.state: [soundElements, audioUrls]
    audioElements,  \* the React state array: a sequence of object ids
    cleanupElems,   \* the audioElements array the effect's cleanup closed over
    objs,           \* heap of AudioElement objects, by id
    isPlaying,      \* the React state isPlaying
    players,        \* every Tone.Player created, by id
    panners,        \* every Tone.Panner created, by id
    pending,        \* togglePlayback calls suspended at await Tone.start()
    ctx,            \* Tone.context.state
    nSets,          \* setter calls so far
    nToggles,       \* toggle calls so far
    mxPhase,        \* Mixer: "constructed", "mounted" or "unmounted"
    props,          \* Mixer props: [audioUrls, soundElements]
    volumes,        \* Mixer state volumes
    pans,           \* Mixer state pans
    playersRef,     \* Mixer players.current: sequence of [player, panner]
    mixerRef,       \* Mixer mixer.current: a channel id, or Undefined
    mxIsPlaying,    \* Mixer state isPlaying
    mxPending,      \* togglePlay calls suspended at await Tone.start()
    reverbs,        \* every Tone.Reverb created, by id
    channels,       \* every Tone.Channel created, by id
    badTracks,      \* the tracks whose source makes player.start() throw
    unhandled,      \* toggle promises that rejected, which no caller handles
    nBuilds,        \* SceneGenerator renders that rendered the Mixer anew
    scene,          \* SceneGenerator state scene: the text of the input
    response,       \* SceneGenerator state response
    isLoading,      \* SceneGenerator state isLoading
    error,          \* SceneGenerator state error
    sgAudioUrls,    \* SceneGenerator state audioUrls
    isAudioLoading, \* SceneGenerator state isAudioLoading
    submits,        \* handleSubmit calls suspended at an await
    audioCalls,     \* handleGenerateAudio calls suspended at an await
    nSubmits        \* handleSubmit calls that passed the guard so far

pageVars == <<phase, location, audioElements, cleanupElems, objs, isPlaying,
              pending>>

mixerVars == <<mxPhase, props, volumes, pans, playersRef, mixerRef,
               mxIsPlaying, mxPending, reverbs, channels>>

sceneVars == <<scene, response, isLoading, error, sgAudioUrls, isAudioLoading,
               submits, audioCalls, nSubmits>>

vars == <<pageVars, mixerVars, sceneVars, players, panners, ctx, nSets,
          nToggles, badTracks, unhandled, nBuilds>>

\* ------------------------------------------------------- Tone.js objects
\* new Tone.Player(url), not yet connected or started
NewPlayer(track, url) ==
    [track |-> track, url |-> url, volume |-> Fin(0), state |-> "stopped",
     active |-> 0, disposed |-> FALSE, out |-> Null]

\* what a node's output is connected to
Unconnected == [to |-> "none", id |-> 0]
ToDestination == [to |-> "destination", id |-> 0]
ToReverb(rv) == [to |-> "reverb", id |-> rv]
ToChannel(ch) == [to |-> "channel", id |-> ch]

\* new Tone.Panner(pan)
NewPanner(pan) ==
    [pan |-> pan, disposed |-> FALSE, out |-> Unconnected]

\* player.start(): one more source is sounding
PlayerStart(p) == [p EXCEPT !.state = "started", !.active = @ + 1]

\* player.stop(): every source of the player is silenced
PlayerStop(p) == [p EXCEPT !.state = "stopped", !.active = 0]

\* node.dispose()
Dispose(node) == [node EXCEPT !.disposed = TRUE]

\* --------------------------------------------------------------- MixerPage
ToneInit ==
    /\ players = << >>
    /\ panners = << >>
    /\ reverbs = << >>
    /\ channels = << >>
    /\ ctx = "suspended"
    /\ nSets = 0
    /\ nToggles = 0

\* the Mixer component is not part of the routed application
MixerAbsent ==
    /\ mxPhase = "absent"
    /\ props = [audioUrls |-> << >>, soundElements |-> << >>]
    /\ volumes = << >>
    /\ pans = << >>
    /\ playersRef = << >>
    /\ mixerRef = Undefined
    /\ mxIsPlaying = FALSE
    /\ mxPending = << >>

\* the null of the SceneGenerator states response and error
NoResponse == [id |-> Null, sound_elements |-> << >>]
NoError == "null"

\* the useState initial values of SceneGenerator, no handler called yet
SceneGeneratorInit ==
    /\ scene = ""
    /\ response = NoResponse
    /\ isLoading = FALSE
    /\ error = NoError
    /\ sgAudioUrls = << >>
    /\ isAudioLoading = FALSE
    /\ submits = << >>
    /\ audioCalls = << >>
    /\ nSubmits = 0

\* the SceneGenerator component is not part of the routed application, and
\* a Mixer studied on its own has no host that renders it anew
SceneAbsent ==
    /\ SceneGeneratorInit
    /\ nBuilds = 0

PageInit ==
    /\ phase = "constructed"
    /\ audioElements = << >>
    /\ cleanupElems = << >>
    /\ objs = << >>
    /\ isPlaying = FALSE
    /\ pending = << >>

\* every source loads and the platform lets the context resume
NoFailure ==
    /\ badTracks = {}
    /\ unhandled = 0

Init ==
    /\ ToneInit
    /\ MixerAbsent
    /\ SceneAbsent
    /\ PageInit
    /\ NoFailure
    /\ \E m \in 0..MaxElems, n \in 0..MaxUrls :
          location = [soundElements |-> [k \in 1..m |-> k],
                      audioUrls |-> [k \in 1..n |-> k]]

\* audioUrls[index] of a JavaScript array: undefined past its end
UrlAt(audioUrls, index) ==
    IF index \in 1..Len(audioUrls) THEN audioUrls[index] ELSE Undefined

\* soundElements.map((element, index) => ({...}))
MakeElements(soundElements, audioUrls) ==
    [index \in 1..Len(soundElements) |->
        [name |-> soundElements[index],
         url |-> UrlAt(audioUrls, index),
         player |-> Null,
         panner |-> Null,
         volume |-> 0,
         pan |-> 0]]

\* the mount effect: builds the track list; its cleanup closes over the
\* audioElements of the render the effect belongs to
MountEffect ==
    /\ phase = "constructed"
    /\ LET elements == MakeElements(location.soundElements, location.audioUrls)
       IN /\ objs' = objs \o elements
          /\ audioElements' = [k \in 1..Len(elements) |-> Len(objs) + k]
    /\ cleanupElems' = audioElements
    /\ phase' = "mounted"
    /\ UNCHANGED <<location, isPlaying, players, panners, pending, ctx,
                   nSets, nToggles>>
    /\ UNCHANGED mixerVars
    /\ UNCHANGED <<sceneVars, nBuilds>>
    /\ UNCHANGED <<badTracks, unhandled>>

\* a handleVolumeChange whose map does not test i === index: every track
\* takes the value
handleVolumeChange_EveryTrack(index, value) ==
    /\ phase = "mounted"
    /\ nSets < MaxSets
    /\ index \in 1..Len(audioElements)
    /\ objs' = objs \o [k \in 1..Len(audioElements) |->
                           [objs[audioElements[k]] EXCEPT !.volume = value]]
    /\ audioElements' = [k \in 1..Len(audioElements) |-> Len(objs) + k]
    /\ players' = [p \in 1..Len(players) |->
                      IF \E k \in 1..Len(audioElements) :
                            objs[audioElements[k]].player = p
                      THEN [players[p] EXCEPT !.volume = GainToDb(value)]
                      ELSE players[p]]
    /\ nSets' = nSets + 1
    /\ UNCHANGED <<phase, location, cleanupElems, isPlaying, panners, pending,
                   ctx, nToggles>>
    /\ UNCHANGED mixerVars
    /\ UNCHANGED <<sceneVars, nBuilds>>
    /\ UNCHANGED <<badTracks, unhandled>>

\* handleVolumeChange(index, value)
handleVolumeChange(index, value) ==
    /\ phase = "mounted"
    /\ nSets < MaxSets
    /\ index \in 1..Len(audioElements)
    /\ LET old == objs[audioElements[index]]
           new == [old EXCEPT !.volume = value]
           id == Len(objs) + 1
       IN /\ objs' = Append(objs, new)
          /\ audioElements' = [audioElements EXCEPT ![index] = id]
          /\ players' = IF new.player # Null
                        THEN [players EXCEPT ![new.player].volume = GainToDb(value)]
                        ELSE players
    /\ nSets' = nSets + 1
    /\ UNCHANGED <<phase, location, cleanupElems, isPlaying, panners, pending,
                   ctx, nToggles>>
    /\ UNCHANGED mixerVars
    /\ UNCHANGED <<sceneVars, nBuilds>>
    /\ UNCHANGED <<badTracks, unhandled>>

\* handlePanChange(index, value)
handlePanChange(index, value) ==
    /\ phase = "mounted"
    /\ nSets < MaxSets
    /\ index \in 1..Len(audioElements)
    /\ LET old == objs[audioElements[index]]
           new == [old EXCEPT !.pan = value]
           id == Len(objs) + 1
       IN /\ objs' = Append(objs, new)
          /\ audioElements' = [audioElements EXCEPT ![index] = id]
          /\ panners' = IF new.panner # Null
                        THEN [panners EXCEPT ![new.panner].pan = value]
                        ELSE panners
    /\ nSets' = nSets + 1
    /\ UNCHANGED <<phase, location, cleanupElems, isPlaying, players, pending,
                   ctx, nToggles>>
    /\ UNCHANGED mixerVars
    /\ UNCHANGED <<sceneVars, nBuilds>>
    /\ UNCHANGED <<badTracks, unhandled>>

\* the start branch's body for one element of the forEach; player.start()
\* on a track of badTracks throws before element.player is assigned
StartElement(o, track, st) ==
    IF st.objs[o].player = Null
    THEN LET pid == Len(st.players) + 1
             nid == Len(st.panners) + 1
             panner == [NewPanner(st.objs[o].pan) EXCEPT !.out = ToDestination]
             player == [NewPlayer(track, st.objs[o].url) EXCEPT
                          !.out = nid,
                          !.volume = GainToDb(st.objs[o].volume)]
         IN IF track \in badTracks
            THEN [st EXCEPT !.players = Append(@, player),
                            !.panners = Append(@, panner),
                            !.threw = TRUE]
            ELSE [st EXCEPT !.objs[o].player = pid,
                            !.objs[o].panner = nid,
                            !.players = Append(@, PlayerStart(player)),
                            !.panners = Append(@, panner)]
    ELSE IF track \in badTracks
         THEN [st EXCEPT !.threw = TRUE]
         ELSE [st EXCEPT !.players[st.objs[o].player] = PlayerStart(@)]

\* audioElements.forEach(...): an exception ends the loop
RECURSIVE StartAll(_, _, _)
StartAll(elems, k, st) ==
    IF k > Len(elems) \/ st.threw THEN st
    ELSE StartAll(elems, k + 1, StartElement(elems[k], k, st))

\* the stop branch's forEach
StopAll(elems, ps) ==
    [p \in 1..Len(ps) |->
        IF \E k \in 1..Len(elems) : objs[elems[k]].player = p
        THEN PlayerStop(ps[p]) ELSE ps[p]]

\* togglePlayback with isPlaying false, up to await Tone.start()
togglePlaybackCall ==
    /\ phase = "mounted"
    /\ ~isPlaying
    /\ nToggles < MaxToggles
    /\ Len(pending) < MaxPending
    /\ pending' = Append(pending, [audioElements |-> audioElements,
                                   isPlaying |-> isPlaying])
    /\ nToggles' = nToggles + 1
    /\ UNCHANGED <<phase, location, audioElements, cleanupElems, objs,
                   isPlaying, players, panners, ctx, nSets>>
    /\ UNCHANGED mixerVars
    /\ UNCHANGED <<sceneVars, nBuilds>>
    /\ UNCHANGED <<badTracks, unhandled>>

\* the state the start branch's forEach leaves, for the toggle at the head
ResumedState ==
    StartAll(Head(pending).audioElements, 1,
             [objs |-> objs, players |-> players, panners |-> panners,
              threw |-> FALSE])

\* a togglePlayback that returns before setIsPlaying when there is no track
togglePlaybackResume_SkipsEmpty ==
    /\ pending # << >>
    /\ objs' = ResumedState.objs
    /\ players' = ResumedState.players
    /\ panners' = ResumedState.panners
    /\ isPlaying' = IF phase = "mounted" /\ ~ResumedState.threw
                       /\ Head(pending).audioElements # << >>
                    THEN ~Head(pending).isPlaying
                    ELSE isPlaying
    /\ unhandled' = IF ResumedState.threw THEN unhandled + 1 ELSE unhandled
    /\ pending' = Tail(pending)
    /\ ctx' = "running"
    /\ UNCHANGED <<phase, location, audioElements, cleanupElems, nSets,
                   nToggles>>
    /\ UNCHANGED mixerVars
    /\ UNCHANGED <<sceneVars, nBuilds>>
    /\ UNCHANGED badTracks

\* a togglePlayback that negates the current isPlaying, not the captured one
togglePlaybackResume_TogglesCurrent ==
    /\ pending # << >>
    /\ objs' = ResumedState.objs
    /\ players' = ResumedState.players
    /\ panners' = ResumedState.panners
    /\ isPlaying' = IF phase = "mounted" /\ ~ResumedState.threw
                    THEN ~isPlaying
                    ELSE isPlaying
    /\ unhandled' = IF ResumedState.threw THEN unhandled + 1 ELSE unhandled
    /\ pending' = Tail(pending)
    /\ ctx' = "running"
    /\ UNCHANGED <<phase, location, audioElements, cleanupElems, nSets,
                   nToggles>>
    /\ UNCHANGED mixerVars
    /\ UNCHANGED <<sceneVars, nBuilds>>
    /\ UNCHANGED badTracks

\* togglePlayback resumed after await Tone.start(): the start branch
togglePlaybackResume ==
    /\ pending # << >>
    /\ LET call == Head(pending)
           st == StartAll(call.audioElements, 1,
                          [objs |-> objs, players |-> players,
                           panners |-> panners, threw |-> FALSE])
       IN /\ objs' = st.objs
          /\ players' = st.players
          /\ panners' = st.panners
          /\ isPlaying' = IF phase = "mounted" /\ ~st.threw
                          THEN ~call.isPlaying
                          ELSE isPlaying
          /\ unhandled' = IF st.threw THEN unhandled + 1 ELSE unhandled
    /\ pending' = Tail(pending)
    /\ ctx' = "running"
    /\ UNCHANGED <<phase, location, audioElements, cleanupElems, nSets,
                   nToggles>>
    /\ UNCHANGED mixerVars
    /\ UNCHANGED <<sceneVars, nBuilds>>
    /\ UNCHANGED badTracks

\* await Tone.start() rejects: togglePlayback ends there, and the promise it
\* returned to onClick rejects
togglePlaybackReject ==
    /\ pending # << >>
    /\ ctx # "running"
    /\ pending' = Tail(pending)
    /\ unhandled' = unhandled + 1
    /\ UNCHANGED <<phase, location, audioElements, cleanupElems, objs,
                   isPlaying, players, panners, ctx, nSets, nToggles>>
    /\ UNCHANGED mixerVars
    /\ UNCHANGED <<sceneVars, nBuilds>>
    /\ UNCHANGED badTracks

\* togglePlayback with isPlaying true: the stop branch
togglePlaybackStop ==
    /\ phase = "mounted"
    /\ isPlaying
    /\ nToggles < MaxToggles
    /\ players' = StopAll(audioElements, players)
    /\ isPlaying' = ~isPlaying
    /\ nToggles' = nToggles + 1
    /\ UNCHANGED <<phase, location, audioElements, cleanupElems, objs,
                   panners, pending, ctx, nSets>>
    /\ UNCHANGED mixerVars
    /\ UNCHANGED <<sceneVars, nBuilds>>
    /\ UNCHANGED <<badTracks, unhandled>>

\* the cleanup's forEach over the array it closed over
CleanupPlayers(elems, ps) ==
    [p \in 1..Len(ps) |->
        IF \E k \in 1..Len(elems) : objs[elems[k]].player = p
        THEN Dispose(ps[p]) ELSE ps[p]]

CleanupPanners(elems, ns) ==
    [n \in 1..Len(ns) |->
        IF \E k \in 1..Len(elems) : objs[elems[k]].panner = n
        THEN Dispose(ns[n]) ELSE ns[n]]

\* the view is left: React runs the effect's cleanup
Unmount ==
    /\ phase = "mounted"
    /\ players' = CleanupPlayers(cleanupElems, players)
    /\ panners' = CleanupPanners(cleanupElems, panners)
    /\ phase' = "unmounted"
    /\ UNCHANGED <<location, audioElements, cleanupElems, objs, isPlaying,
                   pending, ctx, nSets, nToggles>>
    /\ UNCHANGED mixerVars
    /\ UNCHANGED <<sceneVars, nBuilds>>
    /\ UNCHANGED <<badTracks, unhandled>>

SetVolume == \E index \in 1..MaxElems + 1, value \in VolInputs :
                handleVolumeChange(index, value)

SetPan == \E index \in 1..MaxElems + 1, value \in PanInputs :
             handlePanChange(index, value)

Next ==
    \/ MountEffect
    \/ SetVolume
    \/ SetPan
    \/ togglePlaybackCall
    \/ togglePlaybackResume
    \/ togglePlaybackStop
    \/ Unmount

Spec == Init /\ [][Next]_vars

\* the mixer view where one source may fail and the platform may refuse to
\* resume the audio context
InitFail ==
    /\ ToneInit
    /\ MixerAbsent
    /\ SceneAbsent
    /\ PageInit
    /\ unhandled = 0
    /\ \E m \in 0..MaxElems, n \in 0..MaxUrls :
          /\ location = [soundElements |-> [k \in 1..m |-> k],
                         audioUrls |-> [k \in 1..n |-> k]]
          /\ badTracks \in {{}} \cup {{k} : k \in 1..m}

NextFail ==
    \/ Next
    \/ togglePlaybackReject

SpecFail == InitFail /\ [][NextFail]_vars

\* ------------------------------------------------------ Mixer (main.tsx)
\* slider positions the scene's sound elements come with
ElementParams == {[volume |-> 50, pan |-> 0], [volume |-> 80, pan |-> -30]}

\* mixer view not part of the SceneGenerator application
PageAbsent ==
    /\ phase = "absent"
    /\ location = [soundElements |-> << >>, audioUrls |-> << >>]
    /\ audioElements = << >>
    /\ cleanupElems = << >>
    /\ objs = << >>
    /\ isPlaying = FALSE
    /\ pending = << >>

\* useState(...) of a Mixer rendered with the given props
MixerInit ==
    /\ ToneInit
    /\ PageAbsent
    /\ SceneAbsent
    /\ NoFailure
    /\ \E m \in 0..MaxElems, n \in 0..MaxUrls :
         \E els \in [1..m -> ElementParams] :
            /\ props = [audioUrls |-> [k \in 1..n |-> k],
                        soundElements |->
                           [k \in 1..m |-> [name |-> k, parameters |-> els[k]]]]
            /\ volumes = [k \in 1..m |-> els[k].volume]
            /\ pans = [k \in 1..m |-> els[k].pan]
    /\ mxPhase = "constructed"
    /\ playersRef = << >>
    /\ mixerRef = Undefined
    /\ mxIsPlaying = FALSE
    /\ mxPending = << >>

\* const barCount = Math.min(audioUrls.length, soundElements.length)
barCount == Min(Len(props.audioUrls), Len(props.soundElements))

\* the build effect: channel, reverb, one player and panner per bar
Mixer_Effect ==
    /\ mxPhase = "constructed"
    /\ LET ch == Len(channels) + 1
           rv == Len(reverbs) + 1
           p0 == Len(players)
           n0 == Len(panners)
       IN /\ channels' = Append(channels, [disposed |-> FALSE, out |-> ToDestination])
          /\ mixerRef' = ch
          /\ reverbs' = Append(reverbs, [disposed |-> FALSE, out |-> ToChannel(ch)])
          /\ players' = players \o
                 [i \in 1..barCount |->
                     [NewPlayer(i, props.audioUrls[i]) EXCEPT
                         !.volume = GainToDb(volumes[i]),
                         !.out = n0 + i]]
          /\ panners' = panners \o
                 [i \in 1..barCount |->
                     [NewPanner(pans[i]) EXCEPT !.out = ToReverb(rv)]]
          /\ playersRef' = [i \in 1..barCount |->
                               [player |-> p0 + i, panner |-> n0 + i]]
    /\ mxPhase' = "mounted"
    /\ UNCHANGED <<props, volumes, pans, mxIsPlaying, mxPending, ctx, nSets,
                   nToggles>>
    /\ UNCHANGED pageVars
    /\ UNCHANGED <<sceneVars, nBuilds>>
    /\ UNCHANGED <<badTracks, unhandled>>

\* the effect's cleanup
Mixer_Cleanup ==
    /\ mxPhase = "mounted"
    /\ players' = [p \in 1..Len(players) |->
                      IF \E i \in 1..Len(playersRef) : playersRef[i].player = p
                      THEN Dispose(players[p]) ELSE players[p]]
    /\ panners' = [n \in 1..Len(panners) |->
                      IF \E i \in 1..Len(playersRef) : playersRef[i].panner = n
                      THEN Dispose(panners[n]) ELSE panners[n]]
    /\ channels' = IF mixerRef # Undefined
                   THEN [channels EXCEPT ![mixerRef] = Dispose(@)]
                   ELSE channels
    /\ mxPhase' = "unmounted"
    /\ UNCHANGED <<props, volumes, pans, playersRef, mixerRef, mxIsPlaying,
                   mxPending, reverbs, ctx, nSets, nToggles>>
    /\ UNCHANGED pageVars
    /\ UNCHANGED <<sceneVars, nBuilds>>
    /\ UNCHANGED <<badTracks, unhandled>>

\* Mixer.handleVolumeChange(index, value)
Mixer_handleVolumeChange(index, value) ==
    /\ mxPhase = "mounted"
    /\ nSets < MaxSets
    /\ index \in 1..barCount
    /\ volumes' = [volumes EXCEPT ![index] = value]
    /\ players' = [players EXCEPT
                      ![playersRef[index].player].volume = GainToDb(value)]
    /\ nSets' = nSets + 1
    /\ UNCHANGED <<mxPhase, props, pans, playersRef, mixerRef, mxIsPlaying,
                   mxPending, reverbs, channels, panners, ctx, nToggles>>
    /\ UNCHANGED pageVars
    /\ UNCHANGED <<sceneVars, nBuilds>>
    /\ UNCHANGED <<badTracks, unhandled>>

\* Mixer.handlePanChange(index, value)
Mixer_handlePanChange(index, value) ==
    /\ mxPhase = "mounted"
    /\ nSets < MaxSets
    /\ index \in 1..barCount
    /\ pans' = [pans EXCEPT ![index] = value]
    /\ panners' = [panners EXCEPT ![playersRef[index].panner].pan = value]
    /\ nSets' = nSets + 1
    /\ UNCHANGED <<mxPhase, props, volumes, playersRef, mixerRef, mxIsPlaying,
                   mxPending, reverbs, channels, players, ctx, nToggles>>
    /\ UNCHANGED pageVars
    /\ UNCHANGED <<sceneVars, nBuilds>>
    /\ UNCHANGED <<badTracks, unhandled>>

\* ref.forEach(({ player }) => player.stop() or player.start()), for the
\* value ref of a players.current
TogglePlayersOf(ref, wasPlaying) ==
    [p \in 1..Len(players) |->
        IF \E i \in 1..Len(ref) : ref[i].player = p
        THEN IF wasPlaying THEN PlayerStop(players[p])
             ELSE PlayerStart(players[p])
        ELSE players[p]]

\* players.current.forEach(({ player }) => player.stop() or player.start())
TogglePlayers(wasPlaying) == TogglePlayersOf(playersRef, wasPlaying)

\* a togglePlay without the Tone.context.state check and its await
Mixer_togglePlay_NoContextCheck ==
    /\ mxPhase = "mounted"
    /\ nToggles < MaxToggles
    /\ players' = TogglePlayers(mxIsPlaying)
    /\ mxIsPlaying' = ~mxIsPlaying
    /\ nToggles' = nToggles + 1
    /\ UNCHANGED <<mxPhase, props, volumes, pans, playersRef, mixerRef,
                   mxPending, reverbs, channels, panners, ctx, nSets>>
    /\ UNCHANGED pageVars
    /\ UNCHANGED <<sceneVars, nBuilds>>
    /\ UNCHANGED <<badTracks, unhandled>>

\* togglePlay with the context running: no await
Mixer_togglePlay ==
    /\ mxPhase = "mounted"
    /\ ctx = "running"
    /\ nToggles < MaxToggles
    /\ players' = TogglePlayers(mxIsPlaying)
    /\ mxIsPlaying' = ~mxIsPlaying
    /\ nToggles' = nToggles + 1
    /\ UNCHANGED <<mxPhase, props, volumes, pans, playersRef, mixerRef,
                   mxPending, reverbs, channels, panners, ctx, nSets>>
    /\ UNCHANGED pageVars
    /\ UNCHANGED <<sceneVars, nBuilds>>
    /\ UNCHANGED <<badTracks, unhandled>>

\* togglePlay with the context not running, up to await Tone.start()
Mixer_togglePlayCall ==
    /\ mxPhase = "mounted"
    /\ ctx # "running"
    /\ nToggles < MaxToggles
    /\ Len(mxPending) < MaxPending
    /\ mxPending' = Append(mxPending, [isPlaying |-> mxIsPlaying,
                                       stale |-> FALSE, ref |-> << >>])
    /\ nToggles' = nToggles + 1
    /\ UNCHANGED <<mxPhase, props, volumes, pans, playersRef, mixerRef,
                   mxIsPlaying, reverbs, channels, players, panners, ctx,
                   nSets>>
    /\ UNCHANGED pageVars
    /\ UNCHANGED <<sceneVars, nBuilds>>
    /\ UNCHANGED <<badTracks, unhandled>>

\* togglePlay resumed after await Tone.start(): it reads players.current
\* of the Mixer instance that made the call, and its setIsPlaying does
\* nothing once that instance is unmounted
Mixer_togglePlayResume ==
    /\ mxPending # << >>
    /\ LET call == Head(mxPending)
       IN /\ players' = TogglePlayersOf(IF call.stale THEN call.ref
                                         ELSE playersRef, call.isPlaying)
          /\ mxIsPlaying' = IF mxPhase = "mounted" /\ ~call.stale
                            THEN ~call.isPlaying
                            ELSE mxIsPlaying
    /\ mxPending' = Tail(mxPending)
    /\ ctx' = "running"
    /\ UNCHANGED <<mxPhase, props, volumes, pans, playersRef, mixerRef,
                   reverbs, channels, panners, nSets, nToggles>>
    /\ UNCHANGED pageVars
    /\ UNCHANGED <<sceneVars, nBuilds>>
    /\ UNCHANGED <<badTracks, unhandled>>

Mixer_SetVolume == \E index \in 1..MaxElems + 1, value \in VolInputs :
                      Mixer_handleVolumeChange(index, value)

Mixer_SetPan == \E index \in 1..MaxElems + 1, value \in PanInputs :
                   Mixer_handlePanChange(index, value)

MixerNext ==
    \/ Mixer_Effect
    \/ Mixer_Cleanup
    \/ Mixer_SetVolume
    \/ Mixer_SetPan
    \/ Mixer_togglePlay
    \/ Mixer_togglePlayCall
    \/ Mixer_togglePlayResume

SpecMixer == MixerInit /\ [][MixerNext]_vars

\* ---------------------------------------- the Mixer under its host's renders
MaxBuilds == 1

\* the effect's cleanup, as it leaves the players, panners and channels
CleanedPlayers ==
    [p \in 1..Len(players) |->
        IF \E i \in 1..Len(playersRef) : playersRef[i].player = p
        THEN Dispose(players[p]) ELSE players[p]]

CleanedPanners ==
    [n \in 1..Len(panners) |->
        IF \E i \in 1..Len(playersRef) : playersRef[i].panner = n
        THEN Dispose(panners[n]) ELSE panners[n]]

CleanedChannels ==
    IF mixerRef # Undefined
    THEN [channels EXCEPT ![mixerRef] = Dispose(@)]
    ELSE channels

\* the players, panners and players.current the build effect makes for the
\* props pr and the states vols and pns, after the heaps ps and ns
BuiltPlayers(pr, vols, ps, ns) ==
    [i \in 1..Min(Len(pr.audioUrls), Len(pr.soundElements)) |->
        [NewPlayer(i, pr.audioUrls[i]) EXCEPT
            !.volume = GainToDb(vols[i]),
            !.out = Len(ns) + i]]

BuiltPanners(pr, pns, rv) ==
    [i \in 1..Min(Len(pr.audioUrls), Len(pr.soundElements)) |->
        [NewPanner(pns[i]) EXCEPT !.out = ToReverb(rv)]]

BuiltRef(pr, ps, ns) ==
    [i \in 1..Min(Len(pr.audioUrls), Len(pr.soundElements)) |->
        [player |-> Len(ps) + i, panner |-> Len(ns) + i]]

\* the calls suspended at await Tone.start() keep the players ref of the
\* instance that made them
Orphaned(calls) ==
    [k \in 1..Len(calls) |->
        IF calls[k].stale THEN calls[k]
        ELSE [calls[k] EXCEPT !.stale = TRUE, !.ref = playersRef]]

\* a render that leaves the previous build's nodes as they are
Mixer_Rerender_KeepsOldNodes(pr) ==
    /\ mxPhase = "mounted"
    /\ nBuilds < MaxBuilds
    /\ props' = pr
    /\ volumes' = [k \in 1..Len(pr.soundElements) |->
                      pr.soundElements[k].parameters.volume]
    /\ pans' = [k \in 1..Len(pr.soundElements) |->
                   pr.soundElements[k].parameters.pan]
    /\ mxIsPlaying' = FALSE
    /\ mxPending' = Orphaned(mxPending)
    /\ channels' = Append(channels,
                          [disposed |-> FALSE, out |-> ToDestination])
    /\ mixerRef' = Len(channels) + 1
    /\ reverbs' = Append(reverbs, [disposed |-> FALSE,
                                   out |-> ToChannel(Len(channels) + 1)])
    /\ players' = players \o BuiltPlayers(pr, volumes', players, panners)
    /\ panners' = panners \o BuiltPanners(pr, pans', Len(reverbs) + 1)
    /\ playersRef' = BuiltRef(pr, players, panners)
    /\ nBuilds' = nBuilds + 1
    /\ UNCHANGED <<mxPhase, ctx, nSets, nToggles>>
    /\ UNCHANGED pageVars
    /\ UNCHANGED sceneVars
    /\ UNCHANGED <<badTracks, unhandled>>

\* SceneGenerator renders again while the Mixer is shown.  Mixer is a
\* function made anew by every render of SceneGenerator, so React unmounts
\* the Mixer it has (the effect's cleanup runs) and mounts a new one for the
\* props pr (fresh state and refs, then the build effect), in one commit.
Mixer_Rerender(pr) ==
    /\ mxPhase = "mounted"
    /\ nBuilds < MaxBuilds
    /\ props' = pr
    /\ volumes' = [k \in 1..Len(pr.soundElements) |->
                      pr.soundElements[k].parameters.volume]
    /\ pans' = [k \in 1..Len(pr.soundElements) |->
                   pr.soundElements[k].parameters.pan]
    /\ mxIsPlaying' = FALSE
    /\ mxPending' = Orphaned(mxPending)
    /\ channels' = Append(CleanedChannels,
                          [disposed |-> FALSE, out |-> ToDestination])
    /\ mixerRef' = Len(channels) + 1
    /\ reverbs' = Append(reverbs, [disposed |-> FALSE,
                                   out |-> ToChannel(Len(channels) + 1)])
    /\ players' = CleanedPlayers \o
                     BuiltPlayers(pr, volumes', players, panners)
    /\ panners' = CleanedPanners \o
                     BuiltPanners(pr, pans', Len(reverbs) + 1)
    /\ playersRef' = BuiltRef(pr, players, panners)
    /\ nBuilds' = nBuilds + 1
    /\ UNCHANGED <<mxPhase, ctx, nSets, nToggles>>
    /\ UNCHANGED pageVars
    /\ UNCHANGED sceneVars
    /\ UNCHANGED <<badTracks, unhandled>>

\* the props of a render after handleGenerateAudio stored a new list of
\* URLs: the render guard shows the Mixer for a list of at least one URL,
\* and the sound elements are those of the response, which did not change
NewAudioUrls(n) ==
    [audioUrls |-> [k \in 1..n |-> 10 * (nBuilds + 1) + k],
     soundElements |-> props.soundElements]

Mixer_Rebuild == \E n \in 1..MaxUrls : Mixer_Rerender(NewAudioUrls(n))

\* the slider positions of the k-th sound element of the response shown
ParametersOf(k) ==
    IF k % 2 = 1 THEN [volume |-> 50, pan |-> 0]
    ELSE [volume |-> 80, pan |-> -30]

\* the Mixer as SceneGenerator first shows it: for a response and a list of
\* at least one URL
HostedInit ==
    /\ ToneInit
    /\ PageAbsent
    /\ SceneAbsent
    /\ NoFailure
    /\ \E m \in 0..MaxElems, n \in 1..MaxUrls :
          /\ props = [audioUrls |-> [k \in 1..n |-> k],
                      soundElements |->
                         [k \in 1..m |->
                             [name |-> k, parameters |-> ParametersOf(k)]]]
          /\ volumes = [k \in 1..m |-> ParametersOf(k).volume]
          /\ pans = [k \in 1..m |-> ParametersOf(k).pan]
    /\ mxPhase = "constructed"
    /\ playersRef = << >>
    /\ mixerRef = Undefined
    /\ mxIsPlaying = FALSE
    /\ mxPending = << >>

RebuildNext ==
    \/ MixerNext
    \/ Mixer_Rebuild

SpecRebuild == HostedInit /\ [][RebuildNext]_vars

\* ------------------------------------------------ SceneGenerator (main.tsx)
MaxSubmits == 2

\* the texts typed into the scene input: empty, blank, a description
SceneInputs == {"", " ", "rain"}

\* scene.trim()
Trim(text) == IF text = " " THEN "" ELSE text

\* the sound elements of the response to the id-th submission, m of them
SoundElementsOf(id, m) == [j \in 1..m |-> [name |-> 10 * id + j]]

\* the URL the server resolves for a sound element
UrlOf(element) == [resolvedFor |-> element.name]

\* the variables the SceneGenerator handlers leave alone
notSceneVars == <<pageVars, mixerVars, players, panners, ctx, nSets, nToggles,
                  badTracks, unhandled, nBuilds>>

\* onChange of the scene input, which is disabled while isLoading
setScene(text) ==
    /\ ~isLoading
    /\ text # scene
    /\ scene' = text
    /\ UNCHANGED <<response, isLoading, error, sgAudioUrls, isAudioLoading,
                   submits, audioCalls, nSubmits>>
    /\ UNCHANGED notSceneVars

\* handleSubmit up to await fetch(...); the form is disabled while isLoading
handleSubmit ==
    /\ ~isLoading
    /\ Trim(scene) # ""
    /\ nSubmits < MaxSubmits
    /\ isLoading' = TRUE
    /\ error' = NoError
    /\ response' = NoResponse
    /\ sgAudioUrls' = << >>
    /\ submits' = Append(submits, [id |-> nSubmits + 1, parsed |-> FALSE])
    /\ nSubmits' = nSubmits + 1
    /\ UNCHANGED <<scene, isAudioLoading, audioCalls>>
    /\ UNCHANGED notSceneVars

\* handleSubmit reads the chunk that makes the accumulated text parse:
\* setResponse(parsedResponse), a response of m sound elements
handleSubmit_Chunk(m) ==
    /\ submits # << >>
    /\ ~Head(submits).parsed
    /\ response' = [id |-> Head(submits).id,
                    sound_elements |-> SoundElementsOf(Head(submits).id, m)]
    /\ submits' = [submits EXCEPT ![1].parsed = TRUE]
    /\ UNCHANGED <<scene, isLoading, error, sgAudioUrls, isAudioLoading,
                   audioCalls, nSubmits>>
    /\ UNCHANGED notSceneVars

\* handleSubmit reads done (or finds no reader): finally
handleSubmit_Done ==
    /\ submits # << >>
    /\ isLoading' = FALSE
    /\ submits' = Tail(submits)
    /\ UNCHANGED <<scene, response, error, sgAudioUrls, isAudioLoading,
                   audioCalls, nSubmits>>
    /\ UNCHANGED notSceneVars

\* handleSubmit's fetch or read throws: catch, then finally
handleSubmit_Fail ==
    /\ submits # << >>
    /\ error' = "Failed to generate scene. Please try again."
    /\ isLoading' = FALSE
    /\ submits' = Tail(submits)
    /\ UNCHANGED <<scene, response, sgAudioUrls, isAudioLoading, audioCalls,
                   nSubmits>>
    /\ UNCHANGED notSceneVars

\* handleGenerateAudio up to await fetch(...); its button is rendered with a
\* response and disabled while isAudioLoading
handleGenerateAudio ==
    /\ response # NoResponse
    /\ ~isAudioLoading
    /\ isAudioLoading' = TRUE
    /\ error' = NoError
    /\ sgAudioUrls' = << >>
    /\ audioCalls' = Append(audioCalls,
                            [sound_elements |-> response.sound_elements])
    /\ UNCHANGED <<scene, response, isLoading, submits, nSubmits>>
    /\ UNCHANGED notSceneVars

\* handleGenerateAudio after its awaits: setAudioUrls(data.audio_urls), n
\* URLs resolved for the first n sound elements of the request; finally
handleGenerateAudio_Reply(n) ==
    /\ audioCalls # << >>
    /\ n <= Len(Head(audioCalls).sound_elements)
    /\ sgAudioUrls' = [j \in 1..n |-> UrlOf(Head(audioCalls).sound_elements[j])]
    /\ isAudioLoading' = FALSE
    /\ audioCalls' = Tail(audioCalls)
    /\ UNCHANGED <<scene, response, isLoading, error, submits, nSubmits>>
    /\ UNCHANGED notSceneVars

\* handleGenerateAudio's fetch or res.json() throws: catch, then finally
handleGenerateAudio_Fail ==
    /\ audioCalls # << >>
    /\ error' = "Failed to generate audio. Please try again."
    /\ isAudioLoading' = FALSE
    /\ audioCalls' = Tail(audioCalls)
    /\ UNCHANGED <<scene, response, isLoading, sgAudioUrls, submits,
                   nSubmits>>
    /\ UNCHANGED notSceneVars

\* {audioUrls.length > 0 && response && (<Mixer ... />)}
MixerShown == Len(sgAudioUrls) > 0 /\ response # NoResponse

\* the props of the Mixer that is shown
MixerProps ==
    [audioUrls |-> sgAudioUrls, soundElements |-> response.sound_elements]

SceneInit ==
    /\ ToneInit
    /\ PageAbsent
    /\ MixerAbsent
    /\ NoFailure
    /\ SceneGeneratorInit
    /\ nBuilds = 0

TypeScene == \E text \in SceneInputs : setScene(text)

StreamResponse == \E m \in 0..MaxElems : handleSubmit_Chunk(m)

AudioReply == \E n \in 0..MaxUrls : handleGenerateAudio_Reply(n)

SceneNext ==
    \/ TypeScene
    \/ handleSubmit
    \/ StreamResponse
    \/ handleSubmit_Done
    \/ handleSubmit_Fail
    \/ handleGenerateAudio
    \/ AudioReply
    \/ handleGenerateAudio_Fail

SpecScene == SceneInit /\ [][SceneNext]_vars

\* ------------------------------------------------------------ the claims
\* the stored volume and pan of track i of the mixer view
StoredVolume(i) == objs[audioElements[i]].volume
StoredPan(i) == objs[audioElements[i]].pan

\* C1: after handleVolumeChange(i, v), for every v, the stored volume of
\* track i and the linear gain of its live player, if it has one, equal
\* clamp(v, 0, 1).
C1_VolumeIsClamped ==
    [][\A i \in 1..MaxElems + 1, v \in VolInputs :
          handleVolumeChange(i, v) =>
             /\ StoredVolume(i)' = Clamp(v, 0, 100)
             /\ LET pl == objs'[audioElements'[i]].player
                IN pl # Null =>
                      DbToGain(players'[pl].volume) = Fin(Clamp(v, 0, 100))]_vars

\* C2: after handlePanChange(i, p), for every p, the stored pan of track i
\* and the pan of its live panner, if it has one, equal clamp(p, -1, 1).
C2_PanIsClamped ==
    [][\A i \in 1..MaxElems + 1, p \in PanInputs :
          handlePanChange(i, p) =>
             /\ StoredPan(i)' = Clamp(p, -100, 100)
             /\ LET pn == objs'[audioElements'[i]].panner
                IN pn # Null => panners'[pn].pan = Clamp(p, -100, 100)]_vars

\* C3: the track list built on entry has exactly min(m, n) tracks, track k
\* pairs soundElements[k] with audioUrls[k], and no track has an undefined
\* source URL.
C3_TracksAreTruncatedZip ==
    phase = "mounted" =>
       /\ Len(audioElements) =
             Min(Len(location.soundElements), Len(location.audioUrls))
       /\ \A k \in 1..Len(audioElements) :
             /\ objs[audioElements[k]].url # Undefined
             /\ k \in 1..Len(location.audioUrls)
             /\ objs[audioElements[k]].name = location.soundElements[k]
             /\ objs[audioElements[k]].url = location.audioUrls[k]

\* every node of a heap of nodes is disposed
AllDisposed(nodes) == \A k \in 1..Len(nodes) : nodes[k].disposed

\* no player is sounding
NonePlaying(ps) == \A p \in 1..Len(ps) : ps[p].state # "started"

\* C4: when the mixer view is left, every player and panner togglePlayback
\* created has been disposed and no track keeps sounding.
C4_LeavingDisposesEveryNode ==
    [][Unmount => /\ AllDisposed(players')
                  /\ AllDisposed(panners')
                  /\ NonePlaying(players')]_vars

\* C5: teardown of a built graph releases every node handle the build
\* acquired (players, panners, the shared reverb, the master channel) and
\* leaves zero live node handles.
C5_TeardownReleasesEveryHandle ==
    mxPhase = "unmounted" =>
       /\ AllDisposed(players)
       /\ AllDisposed(panners)
       /\ AllDisposed(reverbs)
       /\ AllDisposed(channels)

\* the live players created for track i
LivePlayersOf(i) ==
    {p \in 1..Len(players) : players[p].track = i /\ ~players[p].disposed}

\* C6: in every reachable state each track has at most one live
\* player+panner pair.
C6_AtMostOneLivePairPerTrack ==
    \A i \in 1..Len(audioElements) : Cardinality(LivePlayersOf(i)) <= 1

\* C7: after a togglePlayback that takes the stop branch, no player created
\* by the view is still playing.
C7_StopSilencesEveryPlayer ==
    [][togglePlaybackStop => NonePlaying(players')]_vars

\* the tracks with a sounding player
AudibleTracks(ps) ==
    {ps[p].track : p \in {q \in 1..Len(ps) : ps[q].state = "started"}}

\* C8: a start that follows a completed start and stop makes the same set of
\* tracks audible as the first start (all of them) and allocates no node.
C8_RestartReusesNodes ==
    [][(togglePlaybackResume /\ phase = "mounted" /\ ctx = "running"
           /\ ~isPlaying) =>
          /\ Len(players') = Len(players)
          /\ Len(panners') = Len(panners)
          /\ AudibleTracks(players') = 1..Len(audioElements)]_vars

\* C9: start is issued to a track once per Stopped-to-Playing transition: a
\* player never has a second start issued to it while it is started.
C9_StartIssuedOnce ==
    \A p \in 1..Len(players) : players[p].active <= 1

\* C10: the player and panner that start creates for a track carry the most
\* recent volume and pan the user set for that track before the creation.
C10_NewNodesCarryLatestValues ==
    [][togglePlaybackResume =>
          \A p \in (Len(players) + 1)..Len(players') :
             /\ players'[p].volume = GainToDb(StoredVolume(players'[p].track))
             /\ panners'[players'[p].out].pan = StoredPan(players'[p].track)]_vars

\* track k has a player that is sounding
HasStartedPlayer(ps, k) ==
    \E p \in 1..Len(ps) : ps[p].track = k /\ ps[p].state = "started"

\* C11: when a track's source fails while it is instantiated or started,
\* start still starts every other track and the transport becomes Playing.
C11_FailureIsIsolated ==
    [][(togglePlaybackResume /\ phase = "mounted") =>
          /\ isPlaying'
          /\ \A k \in (1..Len(audioElements)) \ badTracks :
                HasStartedPlayer(players', k)]_vars

\* the per-track playback-unavailable flag of track i, as the caller reads it
Flagged(i) ==
    LET e == objs[audioElements[i]]
    IN "unavailable" \in DOMAIN e /\ e.unavailable

\* C12: a track whose source failed is marked with a per-track
\* playback-unavailable flag; a track whose source loaded is never flagged.
C12_FailedTrackIsFlagged ==
    /\ \A p \in 1..Len(players) :
          players[p].track \in badTracks => Flagged(players[p].track)
    /\ \A i \in 1..Len(audioElements) :
          i \notin badTracks => ~Flagged(i)

\* C13: when Tone.start() rejects, start reports the condition to a caller
\* that handles it (no promise is left rejected and unhandled), no track is
\* instantiated or started, and the transport stays Stopped.
C13_BlockedStartIsReported ==
    [][togglePlaybackReject =>
          /\ unhandled' = unhandled
          /\ players' = players
          /\ panners' = panners
          /\ isPlaying' = isPlaying]_vars

\* C14: a toggle that resumes after the view was left creates no player or
\* panner and starts none.
C14_DisposalWinsOverStart ==
    [][(togglePlaybackResume /\ phase = "unmounted") =>
          /\ players' = players
          /\ panners' = panners]_vars

\* C15: with an empty track list, start makes the transport Playing, creates
\* no audio node and raises no error.
C15_EmptyStartPlays ==
    [][(togglePlaybackResume /\ phase = "mounted" /\ audioElements = << >>) =>
          /\ isPlaying'
          /\ players' = players
          /\ panners' = panners
          /\ unhandled' = unhandled]_vars

C15_Witness ==
    /\ phase = "mounted"
    /\ location.soundElements = << >>
    /\ audioElements = << >>
    /\ isPlaying
    /\ ctx = "running"
    /\ players = << >>
    /\ panners = << >>
    /\ unhandled = 0

\* C16: the transport is Stopped initially; it becomes Playing only in a
\* toggle that issued start and Stopped only in a toggle that issued stop; a
\* toggle that issued start never sets Stopped, one that issued stop never
\* sets Playing.
C16_TransportStateMachine ==
    /\ ~isPlaying
    /\ [][/\ (isPlaying' # isPlaying) =>
                \/ (isPlaying' /\ togglePlaybackResume)
                \/ (~isPlaying' /\ togglePlaybackStop)
          /\ togglePlaybackResume => (isPlaying' \/ ~isPlaying)
          /\ togglePlaybackStop => ~isPlaying']_vars

C16_Witness ==
    /\ phase = "mounted"
    /\ ~isPlaying
    /\ ctx = "running"
    /\ unhandled = 0
    /\ Len(players) > 0
    /\ NonePlaying(players)

\* C17 as stated: no player exists, created or started, while the audio
\* context is not running.
C17_NoPlayerWhileSuspended ==
    Len(players) > 0 => ctx = "running"

\* C17 as amended: no player is started while the audio context is not
\* running.
C17_NoStartWhileSuspended ==
    \A p \in 1..Len(players) :
       players[p].state = "started" => ctx = "running"

C17_Witness ==
    /\ mxPhase = "mounted"
    /\ mxIsPlaying
    /\ ctx = "running"
    /\ \E p \in 1..Len(players) : players[p].state = "started"

\* C18: whenever the transport is Playing, every track of the current list
\* has a live started player referenced by its state entry.
C18_PlayingMeansEveryTrackStarted ==
    (phase = "mounted" /\ isPlaying) =>
       \A i \in 1..Len(audioElements) :
          LET pl == objs[audioElements[i]].player
          IN /\ pl # Null
             /\ players[pl].state = "started"
             /\ ~players[pl].disposed

\* player p goes through one panner into a reverb, the reverb into a
\* channel, the channel to the destination
RoutedThroughReverb(p) ==
    /\ players[p].out # Null
    /\ panners[players[p].out].out.to = "reverb"
    /\ reverbs[panners[players[p].out].out.id].out.to = "channel"
    /\ channels[reverbs[panners[players[p].out].out.id].out.id].out
          = ToDestination

\* C19: every instantiated source is connected through exactly one pan node
\* into the single shared reverb, which is connected to the master sink; no
\* pan node reaches the output bypassing the reverb.
C19_EverySourceThroughSharedReverb ==
    /\ \A p \in 1..Len(players) : RoutedThroughReverb(p)
    /\ \A n \in 1..Len(panners) : panners[n].out # ToDestination
    /\ \A p, q \in 1..Len(players) :
          /\ panners[players[p].out].out = panners[players[q].out].out
          /\ (p # q => players[p].out # players[q].out)

\* C20: for every live player created for track i, the player's gain is the
\* decibel conversion of track i's stored volume and its panner's pan is
\* track i's stored pan.
C20_LiveNodesMatchStoredValues ==
    \A p \in 1..Len(players) :
       ~players[p].disposed =>
          /\ players[p].volume = GainToDb(StoredVolume(players[p].track))
          /\ panners[players[p].out].pan = StoredPan(players[p].track)

\* the players and panners of the build the Mixer has now
CurrentPlayers == {playersRef[i].player : i \in 1..Len(playersRef)}
CurrentPanners == {playersRef[i].panner : i \in 1..Len(playersRef)}

\* C21: once the Mixer graph is rebuilt, every player and panner of an
\* earlier build is disposed: the live players and panners are those of the
\* latest build, they are no more than its track count, and every source
\* that is sounding belongs to the latest build.
C21_RebuildDisposesPreviousBuild ==
    /\ \A p \in 1..Len(players) :
          ~players[p].disposed => p \in CurrentPlayers
    /\ \A n \in 1..Len(panners) :
          ~panners[n].disposed => n \in CurrentPanners
    /\ Cardinality({p \in 1..Len(players) : ~players[p].disposed})
          <= barCount
    /\ \A p \in 1..Len(players) :
          (players[p].state = "started" /\ ~players[p].disposed) =>
             /\ p \in CurrentPlayers
             /\ players[p].track \in 1..barCount
             /\ players[p].url = props.audioUrls[players[p].track]

C21_Witness ==
    /\ nBuilds > 0
    /\ mxPhase = "mounted"
    /\ barCount > 0
    /\ \E p \in 1..Len(players) :
          players[p].disposed /\ players[p].state = "started"
    /\ \E p \in CurrentPlayers :
          ~players[p].disposed /\ players[p].state = "started"

\* C22: for a stored volume of 0, the initial volume of every track of the
\* mixer view included, the decibel gain assigned to the player is finite
\* (a silence floor), never -Infinity.
C22_ZeroVolumeGetsFiniteFloor ==
    \A p \in 1..Len(players) :
       /\ players[p].volume # NegInfinity
       /\ (DbToGain(players[p].volume) = Fin(0) => players[p].volume.k = "fin")

\* the fields of a player other than its volume
PlayerButVolume(p) == [p EXCEPT !.volume = Fin(0)]

\* the fields of a panner other than its pan
PannerButPan(n) == [n EXCEPT !.pan = 0]

\* a setter of the mixer view on track i kept the track list, the other
\* tracks, the handles and the transport
PageFrame(i) ==
    /\ Len(audioElements') = Len(audioElements)
    /\ \A j \in 1..Len(audioElements) :
          /\ j # i => /\ audioElements'[j] = audioElements[j]
                      /\ StoredVolume(j)' = StoredVolume(j)
                      /\ StoredPan(j)' = StoredPan(j)
          /\ objs'[audioElements'[j]].name = objs[audioElements[j]].name
          /\ objs'[audioElements'[j]].url = objs[audioElements[j]].url
          /\ objs'[audioElements'[j]].player = objs[audioElements[j]].player
          /\ objs'[audioElements'[j]].panner = objs[audioElements[j]].panner
    /\ \A o \in 1..Len(objs) : objs'[o] = objs[o]
    /\ Len(players') = Len(players)
    /\ Len(panners') = Len(panners)
    /\ \A p \in 1..Len(players) :
          /\ PlayerButVolume(players'[p]) = PlayerButVolume(players[p])
          /\ p # objs[audioElements[i]].player => players'[p] = players[p]
    /\ \A n \in 1..Len(panners) :
          /\ PannerButPan(panners'[n]) = PannerButPan(panners[n])
          /\ n # objs[audioElements[i]].panner => panners'[n] = panners[n]
    /\ UNCHANGED <<isPlaying, pending, ctx, phase, location, cleanupElems>>

\* a setter of the Mixer on track i kept the other tracks, the handles and
\* the transport
MixerFrame(i) ==
    /\ Len(volumes') = Len(volumes)
    /\ Len(pans') = Len(pans)
    /\ \A j \in 1..Len(volumes) :
          j # i => (volumes'[j] = volumes[j] /\ pans'[j] = pans[j])
    /\ Len(players') = Len(players)
    /\ Len(panners') = Len(panners)
    /\ \A p \in 1..Len(players) :
          /\ PlayerButVolume(players'[p]) = PlayerButVolume(players[p])
          /\ p # playersRef[i].player => players'[p] = players[p]
    /\ \A n \in 1..Len(panners) :
          /\ PannerButPan(panners'[n]) = PannerButPan(panners[n])
          /\ n # playersRef[i].panner => panners'[n] = panners[n]
    /\ UNCHANGED <<props, playersRef, mixerRef, reverbs, channels,
                   mxIsPlaying, mxPending, ctx, mxPhase>>

\* C23: a volume or pan change on track i leaves unchanged the stored
\* volume and pan of every other track, the name and URL of every track, the
\* node handles of every track (none created, replaced or disposed, track
\* i's included), the number and order of the tracks, and the transport
\* state; a volume change leaves track i's pan, a pan change its volume.
C23_SettersKeepTheFrame ==
    [][\A i \in 1..MaxElems + 1 :
          /\ \A v \in VolInputs :
                /\ handleVolumeChange(i, v) =>
                      (PageFrame(i) /\ StoredPan(i)' = StoredPan(i))
                /\ Mixer_handleVolumeChange(i, v) =>
                      (MixerFrame(i) /\ pans' = pans)
          /\ \A v \in PanInputs :
                /\ handlePanChange(i, v) =>
                      (PageFrame(i) /\ StoredVolume(i)' = StoredVolume(i))
                /\ Mixer_handlePanChange(i, v) =>
                      (MixerFrame(i) /\ volumes' = volumes)]_vars

C23_Witness ==
    /\ phase = "mounted"
    /\ nSets > 0
    /\ isPlaying
    /\ Len(audioElements) > 1
    /\ \A j \in 1..Len(audioElements) : objs[audioElements[j]].player # Null
    /\ \E i, j \in 1..Len(audioElements) :
          /\ StoredVolume(i) # 0
          /\ players[objs[audioElements[i]].player].volume
                = GainToDb(StoredVolume(i))
          /\ StoredVolume(j) = 0
          /\ players[objs[audioElements[j]].player].volume = NegInfinity

\* C24: whenever the Mixer is shown, the audio URLs it receives were
\* resolved for the sound elements of the response that is displayed: URL i
\* is the one resolved for sound element i of that response.
C24_UrlsBelongToDisplayedResponse ==
    MixerShown =>
       \A i \in 1..Len(MixerProps.audioUrls) :
          /\ i <= Len(MixerProps.soundElements)
          /\ MixerProps.audioUrls[i] = UrlOf(MixerProps.soundElements[i])

====
